---- MODULE Spec2Model ----
(***************************************************************************)
(* The Curve Room 2.0: DecisionEngine and GameEngine of js/game-engine.js. *)
(* JavaScript null is the string "null"; arrays of five years are          *)
(* functions on 1..5 (index i of the source is year i+1).                  *)
(***************************************************************************)
EXTENDS Integers, Sequences, FiniteSets, TLC

\* ------------------------------------------------------------------ bounds
\* successful applyDecision calls explored per session
MaxApplies == 5
\* setPayroll calls explored per session
MaxSets == 1
\* copyClaimCode invocations explored per page
MaxCopies == 4

Years == 1..5
Paths == {"winNow", "rebuild", "hybrid"}

\* ------------------------------------------------------------- arithmetic
Abs(x) == IF x < 0 THEN 0 - x ELSE x
Max2(a, b) == IF a >= b THEN a ELSE b
Min2(a, b) == IF a <= b THEN a ELSE b
Max3(a, b, c) == Max2(a, Max2(b, c))
Sum5(f) == f[1] + f[2] + f[3] + f[4] + f[5]

\* ------------------------------------------------------------------- data
\* teamData records: the slider teams and their curves are the embedded
\* fallback records; "steady" is a scenario whose target is the flat curve
\* and "sixyear" one whose idealCurve array has six entries.
SliderTeams == {"nets", "steady", "sixyear"}
DecisionTeams == {"knicks", "mets", "jets"}
Teams == SliderTeams \cup DecisionTeams

idealCurveOf(team) ==
    CASE team = "knicks" -> <<90, 95, 100, 85, 70>>
      [] team = "nets"   -> <<50, 60, 80, 95, 85>>
      [] team = "mets"   -> <<70, 80, 95, 100, 80>>
      [] team = "jets"   -> <<75, 90, 100, 85, 65>>
      [] team = "steady" -> <<75, 75, 75, 75, 75>>
      [] team = "sixyear" -> <<60, 75, 100, 80, 60, 110>>
      [] OTHER           -> <<60, 75, 100, 80, 60>>

startingPayrollOf(team) ==
    CASE team = "knicks" -> 95
      [] team = "nets"   -> 55
      [] team = "mets"   -> 75
      [] team = "jets"   -> 70
      [] OTHER           -> 75

Opt(id, pay, unlock, lock, w, r, h) ==
    [id |-> id, payrollPercentage |-> pay,
     flags |-> [unlock |-> unlock, lock |-> lock],
     pathWeights |-> [winNow |-> w, rebuild |-> r, hybrid |-> h]]

\* teamData.decisions: year -> options in authoring order.  A year without
\* an entry is the empty sequence (the !this.team.decisions[year] branch).
CatalogOf(team) ==
    CASE team = "knicks" ->
           [y \in Years |->
              CASE y = 1 -> << Opt("sign_star_fa", 90, {"extend_star_y2"},
                                   {"draft_heavy", "rebuild_mode"}, 25, -15, 5),
                               Opt("draft_and_develop", 50,
                                   {"young_core_locked", "cap_flexibility"},
                                   {"sign_star_fa"}, -10, 25, 8) >>
                [] y = 2 -> << Opt("extend_star", 95, {"all_in_y3"},
                                   {"rebuild_mode"}, 25, -15, 5) >>
                [] y = 3 -> << Opt("go_all_in", 100, {"title_window"},
                                   {"draft_heavy"}, 25, -15, 5) >>
                [] y = 4 -> << Opt("begin_taper", 70, {"cap_flexibility"},
                                   {}, 20, -10, 5) >>
                [] y = 5 -> << Opt("shed_salary", 60, {"reset_ready"},
                                   {}, 20, -10, 5) >>]
      [] team = "mets" ->
           [y \in Years |->
              CASE y = 1 -> << Opt("trade_for_assets", 65,
                                   {"rebuild_advantage", "draft_capital"},
                                   {"win_now_contention"}, -5, 20, 10),
                               Opt("balanced_approach", 75, {"flexible_year2"},
                                   {}, 10, 10, 20) >>
                [] y = 2 -> << Opt("quick_spending_boost", 85,
                                   {"win_now_contention"},
                                   {"draft_capital"}, 20, -5, 5),
                               Opt("maintain_payroll", 75, {}, {}, 5, 5, 15) >>
                [] OTHER -> << >>]
      [] team = "jets" ->
           [y \in Years |->
              CASE y = 1 -> << Opt("lean_win", 90, {"extend_star_y2"},
                                   {"draft_heavy"}, 25, -15, 5),
                               Opt("lean_rebuild", 50, {"cap_flexibility"},
                                   {"lean_win"}, -10, 25, 8),
                               Opt("lean_balanced", 75, {"flexible_year2"},
                                   {}, 10, 10, 20) >>
                [] y = 2 -> << Opt("tilt_win", 80, {}, {}, 10, 0, 0),
                               Opt("tilt_rebuild", 70, {}, {}, 0, 10, 0) >>
                [] y = 3 -> << Opt("tilt_hybrid", 75, {}, {}, 0, 0, 10),
                               Opt("push_win", 85, {}, {}, 2, 0, 0) >>
                [] y = 4 -> << Opt("hedge", 70, {}, {}, 5, 12, 5) >>
                [] OTHER -> << >>]
      [] OTHER -> [y \in Years |-> << >>]

\* the catalogs, tabulated once
Catalogs == [t \in Teams \cup {"null"} |-> CatalogOf(t)]
Catalog(team) == Catalogs[team]

hasDecisions(team) == \E y \in Years : Len(Catalog(team)[y]) > 0

NoOption == Opt("null", 0, {}, {}, 0, 0, 0)
ZeroScores == [winNow |-> 0, rebuild |-> 0, hybrid |-> 0]
NoDecisions == [y \in Years |-> "null"]

\* ------------------------------------------------------- DecisionEngine
getAllDecisions(team, year) ==
    IF year \in Years THEN Catalog(team)[year] ELSE << >>

\* getAvailableDecisions with the filter on activeFlags left out
getAvailableDecisions_noFilter(team, flags, year) ==
    IF year \in Years THEN Catalog(team)[year] ELSE << >>

\* DecisionEngine.getAvailableDecisions: a year without an entry gives [],
\* otherwise the options none of whose lock flags is active, in array order
getAvailableDecisions(team, flags, year) ==
    IF year \notin Years THEN << >>
    ELSE LET allDecisions == Catalog(team)[year]
             unlocked(d) == ~ \E f \in d.flags.lock : f \in flags
         IN SelectSeq(allDecisions, unlocked)

\* isLocked true only when nothing at all is available
isLocked_whenNoneAvailable(available, id) == available = << >>

\* renderDecisionCards: a card is locked when its option is not among the
\* available ones
isLocked(available, id) ==
    ~ \E i \in 1..Len(available) : available[i].id = id

\* Array.prototype.find: the first option with the id, or NoOption
findDecision(team, year, decisionId) ==
    LET all == getAllDecisions(team, year)
        hits == {i \in 1..Len(all) : all[i].id = decisionId}
    IN IF hits = {} THEN NoOption
       ELSE all[CHOOSE i \in hits : \A j \in hits : i <= j]

getCurrentDecision(team, ds, year) ==
    IF ds[year] = "null" THEN NoOption ELSE findDecision(team, year, ds[year])

\* getPayrollCurve with 0 in place of the default of 50
getPayrollCurve_zeroDefault(team, ds) ==
    [y \in Years |->
        LET decision == getCurrentDecision(team, ds, y)
        IN IF decision.id # "null" THEN decision.payrollPercentage ELSE 0]

getPayrollCurve(team, ds) ==
    [y \in Years |->
        LET decision == getCurrentDecision(team, ds, y)
        IN IF decision.id # "null" THEN decision.payrollPercentage ELSE 50]

\* determinePath with the winNow comparison loosened to >=
determinePath_winNowOnTie(scores) ==
    LET maxScore == Max3(scores.winNow, scores.rebuild, scores.hybrid)
    IN IF scores.hybrid = maxScore
          /\ scores.hybrid > Min2(scores.winNow, scores.rebuild)
       THEN "hybrid"
       ELSE IF scores.winNow = maxScore /\ scores.winNow >= scores.rebuild
       THEN "winNow"
       ELSE IF scores.rebuild = maxScore THEN "rebuild"
       ELSE "hybrid"

determinePath(scores) ==
    LET maxScore == Max3(scores.winNow, scores.rebuild, scores.hybrid)
    IN IF scores.hybrid = maxScore
          /\ scores.hybrid > Min2(scores.winNow, scores.rebuild)
       THEN "hybrid"
       ELSE IF scores.winNow = maxScore /\ scores.winNow > scores.rebuild
       THEN "winNow"
       ELSE IF scores.rebuild = maxScore THEN "rebuild"
       ELSE "hybrid"

\* applyFlags without the loop over flags.unlock
applyFlags_lockOnly(flags, decision) == flags \cup decision.flags.lock

\* the two forEach loops of applyDecision over flags.lock and flags.unlock
applyFlags(flags, decision) ==
    (flags \cup decision.flags.lock) \cup decision.flags.unlock

\* applyWeights assigning the option's weights instead of adding them
applyWeights_assign(scores, decision) ==
    [winNow  |-> decision.pathWeights.winNow,
     rebuild |-> decision.pathWeights.rebuild,
     hybrid  |-> decision.pathWeights.hybrid]

\* the Object.keys(decision.pathWeights) loop of applyDecision
applyWeights(scores, decision) ==
    [winNow  |-> scores.winNow + decision.pathWeights.winNow,
     rebuild |-> scores.rebuild + decision.pathWeights.rebuild,
     hybrid  |-> scores.hybrid + decision.pathWeights.hybrid]

\* ------------------------------------------------------------ GameEngine
\* CLAIM_CODES with the silver and bronze winNow codes exchanged
CLAIM_CODES_exchanged(tier, path) ==
    CASE tier = "GOLD" /\ path = "winNow"    -> [code |-> "CURVE-301-CHAMPION", xp |-> 250]
      [] tier = "GOLD" /\ path = "rebuild"   -> [code |-> "CURVE-301-ARCHITECT", xp |-> 250]
      [] tier = "GOLD" /\ path = "hybrid"    -> [code |-> "CURVE-301-STRATEGIST", xp |-> 250]
      [] tier = "SILVER" /\ path = "winNow"  -> [code |-> "CURVE-301-SPENDER", xp |-> 175]
      [] tier = "SILVER" /\ path = "rebuild" -> [code |-> "CURVE-301-BUILDER", xp |-> 175]
      [] tier = "SILVER" /\ path = "hybrid"  -> [code |-> "CURVE-301-NEGOTIATOR", xp |-> 175]
      [] tier = "BRONZE" /\ path = "winNow"  -> [code |-> "CURVE-301-CONTENDER", xp |-> 125]
      [] tier = "BRONZE" /\ path = "rebuild" -> [code |-> "CURVE-301-DEVELOPER", xp |-> 125]
      [] tier = "BRONZE" /\ path = "hybrid"  -> [code |-> "CURVE-301-BALANCED", xp |-> 125]

CLAIM_CODES(tier, path) ==
    CASE tier = "GOLD" /\ path = "winNow"    -> [code |-> "CURVE-301-CHAMPION", xp |-> 250]
      [] tier = "GOLD" /\ path = "rebuild"   -> [code |-> "CURVE-301-ARCHITECT", xp |-> 250]
      [] tier = "GOLD" /\ path = "hybrid"    -> [code |-> "CURVE-301-STRATEGIST", xp |-> 250]
      [] tier = "SILVER" /\ path = "winNow"  -> [code |-> "CURVE-301-CONTENDER", xp |-> 175]
      [] tier = "SILVER" /\ path = "rebuild" -> [code |-> "CURVE-301-BUILDER", xp |-> 175]
      [] tier = "SILVER" /\ path = "hybrid"  -> [code |-> "CURVE-301-NEGOTIATOR", xp |-> 175]
      [] tier = "BRONZE" /\ path = "winNow"  -> [code |-> "CURVE-301-SPENDER", xp |-> 125]
      [] tier = "BRONZE" /\ path = "rebuild" -> [code |-> "CURVE-301-DEVELOPER", xp |-> 125]
      [] tier = "BRONZE" /\ path = "hybrid"  -> [code |-> "CURVE-301-BALANCED", xp |-> 125]

\* yearScore with the first breakpoint exclusive
yearScore_exclusive(diff) ==
    IF diff < 5 THEN 20
    ELSE IF diff <= 10 THEN 17
    ELSE IF diff <= 15 THEN 14
    ELSE IF diff <= 20 THEN 10
    ELSE IF diff <= 30 THEN 6
    ELSE Max2(0, 4 - ((diff - 30) \div 10))

\* the if/else ladder of the slider loop body
yearScore(diff) ==
    IF diff <= 5 THEN 20
    ELSE IF diff <= 10 THEN 17
    ELSE IF diff <= 15 THEN 14
    ELSE IF diff <= 20 THEN 10
    ELSE IF diff <= 30 THEN 6
    ELSE Max2(0, 4 - ((diff - 30) \div 10))

\* calculateVariance scaled by 125: with mean = S/5 the squared deviation
\* (x - mean)^2 is (5x - S)^2 / 25 and the variance is their sum / 5.  For
\* integer curves 25 * variance is an integer, and variance = 50 forces an
\* integer mean, so the floating-point comparison `variance < 50` agrees
\* with the exact one.
calculateVariance125(arr) ==
    LET S == Sum5(arr)
    IN Sum5([y \in Years |-> (5 * arr[y] - S) * (5 * arr[y] - S)])

\* arr.indexOf(Math.max(...arr)): the first index holding the maximum
peakIndexOf(arr) ==
    CHOOSE i \in DOMAIN arr :
        /\ \A j \in DOMAIN arr : arr[j] <= arr[i]
        /\ \A j \in DOMAIN arr : arr[j] = arr[i] => i <= j

earlyWinNow(p) == IF p >= 85 THEN 15 ELSE IF p >= 80 THEN 12 ELSE IF p >= 75 THEN 8 ELSE 0
lateWinNow(p) == IF p <= 70 THEN 10 ELSE IF p <= 75 THEN 7 ELSE IF p <= 80 THEN 4 ELSE 0
earlyRebuild(p) == IF p <= 65 THEN 15 ELSE IF p <= 70 THEN 12 ELSE IF p <= 75 THEN 8 ELSE 0
lateRebuild(p) == IF p >= 80 THEN 10 ELSE IF p >= 75 THEN 7 ELSE IF p >= 70 THEN 4 ELSE 0
\* hybridYear with the steady band open at 70
hybridYear_open(p) == IF p > 70 /\ p <= 80 THEN 15 ELSE IF p >= 65 /\ p <= 85 THEN 10 ELSE 0
hybridYear(p) == IF p >= 70 /\ p <= 80 THEN 15 ELSE IF p >= 65 /\ p <= 85 THEN 10 ELSE 0
diversityBonus(curve) == IF Cardinality({curve[y] : y \in Years}) >= 4 THEN 8 ELSE 0

scoreByPath(path, curve) ==
    LET score ==
          IF path = "winNow" THEN
              earlyWinNow(curve[1]) + earlyWinNow(curve[2]) + earlyWinNow(curve[3])
              + lateWinNow(curve[4]) + lateWinNow(curve[5]) + diversityBonus(curve)
          ELSE IF path = "rebuild" THEN
              earlyRebuild(curve[1]) + earlyRebuild(curve[2]) + earlyRebuild(curve[3])
              + lateRebuild(curve[4]) + lateRebuild(curve[5]) + diversityBonus(curve)
          ELSE
              LET steadyCount == Cardinality({y \in Years : curve[y] >= 70 /\ curve[y] <= 80})
              IN Sum5([y \in Years |-> hybridYear(curve[y])])
                 + (IF steadyCount >= 3 THEN 10 ELSE 0)
    IN Min2(100, Max2(0, score))

\* sliderScore without the peak-timing bonus
sliderScore_noPeakBonus(userCurve, idealCurve) ==
    LET base == Sum5([y \in Years |-> yearScore(Abs(userCurve[y] - idealCurve[y]))])
    IN IF calculateVariance125(userCurve) < 50 * 125
       THEN Max2(0, base - 15) ELSE base

sliderScore(userCurve, idealCurve) ==
    LET base == Sum5([y \in Years |-> yearScore(Abs(userCurve[y] - idealCurve[y]))])
        afterFlat == IF calculateVariance125(userCurve) < 50 * 125
                     THEN Max2(0, base - 15) ELSE base
    IN IF peakIndexOf(userCurve) = peakIndexOf(idealCurve)
       THEN afterFlat + 5 ELSE afterFlat

\* calculateHealthScore without the final Math.min(100, Math.max(0, ...))
healthScoreOf_unclamped(mode, engine, scores, userCurve, team) ==
    IF mode = "decisions" /\ engine
    THEN scoreByPath(determinePath(scores), userCurve)
    ELSE sliderScore(userCurve, idealCurveOf(team))

\* calculateHealthScore as a function of the state it reads
healthScoreOf(mode, engine, scores, userCurve, team) ==
    LET totalScore ==
          IF mode = "decisions" /\ engine
          THEN scoreByPath(determinePath(scores), userCurve)
          ELSE sliderScore(userCurve, idealCurveOf(team))
    IN Min2(100, Max2(0, totalScore))

\* decision.strategy.tag: the spending profile of the option's payroll
\* range; a payroll outside the four ranges carries no strategy object
strategyTag(decision) ==
    LET p == decision.payrollPercentage
    IN IF decision.id = "null" THEN "null"
       ELSE IF p >= 85 /\ p <= 100 THEN "SPEND_HEAVY"
       ELSE IF p >= 70 /\ p <= 84 THEN "COMPETITIVE"
       ELSE IF p >= 55 /\ p <= 69 THEN "MODERATE"
       ELSE IF p >= 40 /\ p <= 54 THEN "REBUILD"
       ELSE "null"

\* DecisionEngine.getPayrollCurveWithStrategy: payroll and strategy tag per
\* year, 50 and null for a year without decision or without strategy
getPayrollCurveWithStrategy(team, ds) ==
    [y \in Years |->
        LET decision == getCurrentDecision(team, ds, y)
        IN IF strategyTag(decision) # "null"
           THEN [payroll |-> decision.payrollPercentage,
                 strategy |-> strategyTag(decision)]
           ELSE [payroll |-> 50, strategy |-> "null"]]

\* validatePathCoherence: isCoherent and the years named by the range
\* messages; coherent with no messages when there is no engine
validatePathCoherence(engine, team, ds, scores) ==
    IF ~engine THEN [isCoherent |-> TRUE, flagged |-> {}]
    ELSE LET path == determinePath(scores)
             cws == getPayrollCurveWithStrategy(team, ds)
             count(tags, years) ==
                 Cardinality({y \in years : cws[y].strategy \in tags})
             pathCoherent ==
                 CASE path = "winNow" -> count({"SPEND_HEAVY"}, 1..3) >= 2
                   [] path = "rebuild" -> count({"REBUILD", "MODERATE"}, 1..3) >= 2
                   [] OTHER -> count({"COMPETITIVE", "MODERATE"}, Years) >= 3
             outside == {y \in Years : cws[y].payroll < 40 \/ cws[y].payroll > 140}
         IN [isCoherent |-> pathCoherent /\ outside = {}, flagged |-> outside]

\* tierOf with the gold threshold exclusive
tierOf_exclusive(score) ==
    IF score > 85 THEN [tier |-> "GOLD", xp |-> 250]
    ELSE IF score >= 70 THEN [tier |-> "SILVER", xp |-> 175]
    ELSE IF score >= 55 THEN [tier |-> "BRONZE", xp |-> 125]
    ELSE [tier |-> "null", xp |-> 0]

\* the score ladder of finishGame: the tier and XP of each branch
tierOf(score) ==
    IF score >= 85 THEN [tier |-> "GOLD", xp |-> 250]
    ELSE IF score >= 70 THEN [tier |-> "SILVER", xp |-> 175]
    ELSE IF score >= 55 THEN [tier |-> "BRONZE", xp |-> 125]
    ELSE [tier |-> "null", xp |-> 0]

\* the result record of finishGame, from the final score and the path (or
\* "null" in slider mode)
finishResult(score, path) ==
    LET tier == tierOf(score).tier
        xp == tierOf(score).xp
        claimCode == IF tier = "null" THEN "null"
                     ELSE IF path # "null" THEN CLAIM_CODES(tier, path).code
                     ELSE IF tier = "GOLD" THEN "CURVE-301-GOLD"
                     ELSE IF tier = "SILVER" THEN "CURVE-301-SILVER"
                     ELSE "CURVE-301-BRONZE"
    IN [score |-> score, claimCode |-> claimCode, tier |-> tier, xp |-> xp,
        path |-> path]

\* ------------------------------------------------------------------ state
VARIABLES
    currentTeam,       \* state.currentTeam: a team id or "null"
    currentYear,       \* state.currentYear
    payrollDecisions,  \* state.payrollDecisions
    hasEngine,         \* state.decisionEngine is not null
    decisions,         \* decisionEngine.decisions
    activeFlags,       \* decisionEngine.activeFlags
    pathScores,        \* decisionEngine.pathScores
    healthScore,       \* state.healthScore
    isGameComplete,    \* state.isGameComplete
    gameMode,          \* state.gameMode
    ret,               \* the value returned by the last applyDecision,
                       \* finishGame or query call ("void" after the others)
    history,           \* option id -> successful applyDecision calls this session
    applyCount,        \* successful applyDecision calls this session
    setCount,          \* accepted setPayroll calls this session
    btnText,           \* textContent of the .copy-btn element
    pendingWrites,     \* navigator.clipboard.writeText promises not yet settled
    timers,            \* pending setTimeout callbacks in firing order, each
                       \* holding the originalText it captured
    copies,            \* copyClaimCode invocations on this page
    failedWrites       \* clipboard writes that were rejected

vars == <<currentTeam, currentYear, payrollDecisions, hasEngine, decisions,
          activeFlags, pathScores, healthScore, isGameComplete, gameMode,
          ret, history, applyCount, setCount,
          btnText, pendingWrites, timers, copies, failedWrites>>

uiVars == <<btnText, pendingWrites, timers, copies, failedWrites>>

gameVars == <<currentTeam, currentYear, payrollDecisions, hasEngine, decisions,
              activeFlags, pathScores, healthScore, isGameComplete, gameMode>>

AllOptions == UNION {{Catalog(t)[y][i] : i \in 1..Len(Catalog(t)[y])} :
                        <<t, y>> \in DecisionTeams \X Years}
AllIds == {o.id : o \in AllOptions}
OptionOf(id) == CHOOSE o \in AllOptions : o.id = id
NoHistory == [id \in AllIds |-> 0]
RECURSIVE SumOver(_, _)
SumOver(f, S) == IF S = {} THEN 0
                 ELSE LET x == CHOOSE x \in S : TRUE
                      IN f[x] + SumOver(f, S \ {x})

\* arguments the callers are explored with: every (year, id) pair of a
\* catalog, and pairs no catalog holds
YearArgs == 0..6
SetYearArgs == {0, 4, 6}
PayrollArgs == {30, 150}
ArgsOf(teams) ==
    {<<a[2], Catalog(a[1])[a[2]][a[3]].id>> : a \in
        {a \in teams \X Years \X (1..3) : a[3] <= Len(Catalog(a[1])[a[2]])}}
ApplyArgs ==
    ArgsOf({"knicks", "mets"})
    \cup {<<0, "sign_star_fa">>, <<6, "shed_salary">>, <<2, "sign_star_fa">>,
          <<1, "no_such_option">>, <<3, "maintain_payroll">>}

Ret(op, decision, res) ==
    [op |-> op, decision |-> decision, score |-> res.score,
     claimCode |-> res.claimCode, tier |-> res.tier, xp |-> res.xp,
     path |-> res.path, year |-> 0, options |-> << >>, curve |-> << >>,
     isCoherent |-> TRUE, flagged |-> {}]
NoResult == [score |-> 0, claimCode |-> "null", tier |-> "null", xp |-> 0,
             path |-> "null"]
Void == Ret("void", "null", NoResult)
PathResult(path) == [NoResult EXCEPT !.path = path]
\* what a query on a year returns: the year asked for and the ids of the
\* options returned
YearResult(op, year, options) ==
    [Ret(op, "null", NoResult) EXCEPT
        !.year = year,
        !.options = [i \in 1..Len(options) |-> options[i].id]]

\* the text the page gives the copy button before any script touches it; the
\* handler only ever reads it back, so one token stands for whatever it is
MarkupLabel == "Copy"
CopiedLabel == "Copied!"

\* the copy button as the page renders it: no write and no timer pending
PageLoaded ==
    /\ btnText = MarkupLabel
    /\ pendingWrites = 0
    /\ timers = << >>
    /\ copies = 0
    /\ failedWrites = 0

\* the GameEngine.state literal; no DecisionEngine exists yet
Init ==
    /\ currentTeam = "null"
    /\ currentYear = 1
    /\ payrollDecisions = [y \in Years |-> 50]
    /\ hasEngine = FALSE
    /\ decisions = NoDecisions
    /\ activeFlags = {}
    /\ pathScores = ZeroScores
    /\ healthScore = 50
    /\ isGameComplete = FALSE
    /\ gameMode = "slider"
    /\ ret = Void
    /\ history = NoHistory
    /\ applyCount = 0
    /\ setCount = 0
    /\ PageLoaded

\* ---------------------------------------------------------------- actions
\* initGame keeping the selection state of the engine it finds
InitGame_reuseEngine(teamData) ==
    LET mode == IF hasDecisions(teamData) THEN "decisions" ELSE "slider"
        curve == [y \in Years |-> startingPayrollOf(teamData)]
    IN /\ currentTeam' = teamData
       /\ currentYear' = 1
       /\ payrollDecisions' = curve
       /\ hasEngine' = hasDecisions(teamData)
       /\ decisions' = decisions
       /\ activeFlags' = activeFlags
       /\ pathScores' = pathScores
       /\ isGameComplete' = FALSE
       /\ gameMode' = mode
       /\ healthScore' = healthScoreOf(mode, hasDecisions(teamData), pathScores,
                                       curve, teamData)
       /\ ret' = Void
       /\ history' = NoHistory
       /\ applyCount' = 0
       /\ setCount' = 0
    /\ UNCHANGED uiVars

InitGame(teamData) ==
    LET mode == IF hasDecisions(teamData) THEN "decisions" ELSE "slider"
        curve == [y \in Years |-> startingPayrollOf(teamData)]
    IN /\ currentTeam' = teamData
       /\ currentYear' = 1
       /\ payrollDecisions' = curve
       /\ hasEngine' = hasDecisions(teamData)
       /\ decisions' = NoDecisions
       /\ activeFlags' = {}
       /\ pathScores' = ZeroScores
       /\ isGameComplete' = FALSE
       /\ gameMode' = mode
       /\ healthScore' = healthScoreOf(mode, hasDecisions(teamData), ZeroScores,
                                       curve, teamData)
       /\ ret' = Void
       /\ history' = NoHistory
       /\ applyCount' = 0
       /\ setCount' = 0
    /\ UNCHANGED uiVars

CalculateHealthScore ==
    /\ healthScore' = healthScoreOf(gameMode, hasEngine, pathScores,
                                    payrollDecisions, currentTeam)
    /\ ret' = Ret("calculateHealthScore", "null",
                  [NoResult EXCEPT !.score = healthScore'])
    /\ UNCHANGED <<currentTeam, currentYear, payrollDecisions, hasEngine,
                   decisions, activeFlags, pathScores, isGameComplete, gameMode,
                   history, applyCount, setCount, uiVars>>

SetPayroll(year, payrollPercent) ==
    /\ ret' = Void
    /\ IF year >= 1 /\ year <= 5
       THEN /\ setCount < MaxSets
            /\ setCount' = setCount + 1
            /\ payrollDecisions' = [payrollDecisions EXCEPT ![year] = payrollPercent]
            /\ healthScore' = healthScoreOf(gameMode, hasEngine, pathScores,
                                            payrollDecisions', currentTeam)
       ELSE UNCHANGED <<setCount, payrollDecisions, healthScore>>
    /\ UNCHANGED <<currentTeam, currentYear, hasEngine, decisions, activeFlags,
                   pathScores, isGameComplete, gameMode, history,
                   applyCount, uiVars>>

\* applyDecision looking the option up among the available ones only
ApplyDecision_availableOnly(year, decisionId) ==
    LET available == IF hasEngine
                     THEN getAvailableDecisions(currentTeam, activeFlags, year)
                     ELSE << >>
        hits == {i \in 1..Len(available) : available[i].id = decisionId}
        decision == IF hits = {} THEN NoOption
                    ELSE available[CHOOSE i \in hits : TRUE]
    IN /\ ret' = Ret("applyDecision", decision.id, NoResult)
       /\ IF decision.id # "null"
          THEN /\ applyCount < MaxApplies
               /\ applyCount' = applyCount + 1
               /\ history' = [history EXCEPT ![decisionId] = @ + 1]
               /\ decisions' = [decisions EXCEPT ![year] = decisionId]
               /\ activeFlags' = applyFlags(activeFlags, decision)
               /\ pathScores' = applyWeights(pathScores, decision)
               /\ payrollDecisions' = getPayrollCurve(currentTeam, decisions')
               /\ healthScore' = healthScoreOf(gameMode, hasEngine, pathScores',
                                               payrollDecisions', currentTeam)
          ELSE UNCHANGED <<history, applyCount, decisions, activeFlags, pathScores,
                           payrollDecisions, healthScore>>
       /\ UNCHANGED <<currentTeam, currentYear, hasEngine, isGameComplete,
                      gameMode, setCount, uiVars>>

\* GameEngine.applyDecision with DecisionEngine.applyDecision inlined
ApplyDecision(year, decisionId) ==
    LET decision == IF hasEngine THEN findDecision(currentTeam, year, decisionId)
                    ELSE NoOption
    IN /\ ret' = Ret("applyDecision", decision.id, NoResult)
       /\ IF decision.id # "null"
          THEN /\ applyCount < MaxApplies
               /\ applyCount' = applyCount + 1
               /\ history' = [history EXCEPT ![decisionId] = @ + 1]
               /\ decisions' = [decisions EXCEPT ![year] = decisionId]
               /\ activeFlags' = applyFlags(activeFlags, decision)
               /\ pathScores' = applyWeights(pathScores, decision)
               /\ payrollDecisions' = getPayrollCurve(currentTeam, decisions')
               /\ healthScore' = healthScoreOf(gameMode, hasEngine, pathScores',
                                               payrollDecisions', currentTeam)
          ELSE UNCHANGED <<history, applyCount, decisions, activeFlags, pathScores,
                           payrollDecisions, healthScore>>
       /\ UNCHANGED <<currentTeam, currentYear, hasEngine, isGameComplete,
                      gameMode, setCount, uiVars>>

\* getDeterminedPath answering with the default of determinePath
GetDeterminedPath_default ==
    /\ ret' = Ret("getDeterminedPath", "null",
                  PathResult(IF hasEngine THEN "hybrid" ELSE "null"))
    /\ UNCHANGED <<gameVars, history, applyCount, setCount, uiVars>>

GetDeterminedPath ==
    /\ ret' = Ret("getDeterminedPath", "null",
                  PathResult(IF hasEngine THEN determinePath(pathScores) ELSE "null"))
    /\ UNCHANGED <<gameVars, history, applyCount, setCount, uiVars>>

ValidatePathCoherence ==
    LET result == validatePathCoherence(hasEngine, currentTeam, decisions,
                                        pathScores)
    IN /\ ret' = [Ret("validatePathCoherence", "null", NoResult) EXCEPT
                     !.isCoherent = result.isCoherent,
                     !.flagged = result.flagged]
       /\ UNCHANGED <<gameVars, history, applyCount, setCount, uiVars>>

\* getPayrollCurve that also stores the curve it derived
GetPayrollCurve_storing ==
    /\ hasEngine
    /\ ret' = [Ret("getPayrollCurve", "null", NoResult) EXCEPT
                  !.curve = getPayrollCurve(currentTeam, decisions)]
    /\ payrollDecisions' = getPayrollCurve(currentTeam, decisions)
    /\ UNCHANGED <<currentTeam, currentYear, hasEngine, decisions, activeFlags,
                   pathScores, healthScore, isGameComplete, gameMode, history,
                   applyCount, setCount, uiVars>>

\* state.decisionEngine.getPayrollCurve(), a method of the engine object
GetPayrollCurve ==
    /\ hasEngine
    /\ ret' = [Ret("getPayrollCurve", "null", NoResult) EXCEPT
                  !.curve = getPayrollCurve(currentTeam, decisions)]
    /\ UNCHANGED <<gameVars, history, applyCount, setCount, uiVars>>

\* GameEngine.getAvailableDecisions: [] without an engine
GetAvailableDecisions(year) ==
    LET available == IF hasEngine
                     THEN getAvailableDecisions(currentTeam, activeFlags, year)
                     ELSE << >>
    IN /\ ret' = YearResult("getAvailableDecisions", year, available)
       /\ UNCHANGED <<gameVars, history, applyCount, setCount, uiVars>>

\* nextYear without the test against 5
NextYear_unbounded ==
    /\ currentYear' = currentYear + 1
    /\ ret' = Void
    /\ UNCHANGED <<currentTeam, payrollDecisions, hasEngine, decisions,
                   activeFlags, pathScores, healthScore, isGameComplete,
                   gameMode, history, applyCount, setCount, uiVars>>

NextYear ==
    /\ currentYear' = IF currentYear < 5 THEN currentYear + 1 ELSE currentYear
    /\ ret' = Void
    /\ UNCHANGED <<currentTeam, payrollDecisions, hasEngine, decisions,
                   activeFlags, pathScores, healthScore, isGameComplete,
                   gameMode, history, applyCount, setCount, uiVars>>

PreviousYear ==
    /\ currentYear' = IF currentYear > 1 THEN currentYear - 1 ELSE currentYear
    /\ ret' = Void
    /\ UNCHANGED <<currentTeam, payrollDecisions, hasEngine, decisions,
                   activeFlags, pathScores, healthScore, isGameComplete,
                   gameMode, history, applyCount, setCount, uiVars>>

\* goToYear without the range test
GoToYear_unchecked(year) ==
    /\ currentYear' = year
    /\ ret' = Void
    /\ UNCHANGED <<currentTeam, payrollDecisions, hasEngine, decisions,
                   activeFlags, pathScores, healthScore, isGameComplete,
                   gameMode, history, applyCount, setCount, uiVars>>

GoToYear(year) ==
    /\ currentYear' = IF year >= 1 /\ year <= 5 THEN year ELSE currentYear
    /\ ret' = Void
    /\ UNCHANGED <<currentTeam, payrollDecisions, hasEngine, decisions,
                   activeFlags, pathScores, healthScore, isGameComplete,
                   gameMode, history, applyCount, setCount, uiVars>>

\* finishGame followed by decisionEngine.reset()
FinishGame_reset ==
    LET score == healthScoreOf(gameMode, hasEngine, pathScores,
                               payrollDecisions, currentTeam)
        path == IF gameMode = "decisions" /\ hasEngine
                THEN determinePath(pathScores) ELSE "null"
    IN /\ isGameComplete' = TRUE
       /\ healthScore' = score
       /\ ret' = Ret("finishGame", "null", finishResult(score, path))
       /\ decisions' = NoDecisions
       /\ activeFlags' = {}
       /\ pathScores' = ZeroScores
       /\ UNCHANGED <<currentTeam, currentYear, payrollDecisions, hasEngine,
                      gameMode, history, applyCount, setCount, uiVars>>

FinishGame ==
    LET score == healthScoreOf(gameMode, hasEngine, pathScores,
                               payrollDecisions, currentTeam)
        path == IF gameMode = "decisions" /\ hasEngine
                THEN determinePath(pathScores) ELSE "null"
    IN /\ isGameComplete' = TRUE
       /\ healthScore' = score
       /\ ret' = Ret("finishGame", "null", finishResult(score, path))
       /\ UNCHANGED <<currentTeam, currentYear, payrollDecisions, hasEngine,
                      decisions, activeFlags, pathScores, gameMode, history,
                      applyCount, setCount, uiVars>>

ResetGame ==
    /\ currentTeam' = "null"
    /\ currentYear' = 1
    /\ payrollDecisions' = [y \in Years |-> 50]
    /\ hasEngine' = FALSE
    /\ decisions' = NoDecisions
    /\ activeFlags' = {}
    /\ pathScores' = ZeroScores
    /\ healthScore' = 50
    /\ isGameComplete' = FALSE
    /\ gameMode' = "slider"
    /\ ret' = Void
    /\ history' = NoHistory
    /\ applyCount' = 0
    /\ setCount' = 0
    /\ UNCHANGED uiVars

PlayTeams == {"nets", "knicks", "mets"}

Next ==
    \/ \E t \in PlayTeams : InitGame(t)
    \/ \E y \in SetYearArgs, p \in PayrollArgs : SetPayroll(y, p)
    \/ \E a \in ApplyArgs : ApplyDecision(a[1], a[2])
    \/ NextYear
    \/ PreviousYear
    \/ \E y \in YearArgs : GoToYear(y)
    \/ FinishGame
    \/ ResetGame

Spec == Init /\ [][Next]_vars

\* ------------------------------------------- scoring over a grid of curves
\* SpecScore starts where a session stands after initGame (and, in decision
\* mode, one applyDecision for year 1) followed by a setPayroll for each
\* year, and then scores: the stored curve ranges over a grid that puts
\* every breakpoint of the scoring ladders on both of its sides.
SliderDeltas ==
    {<<a, b, c, d, e>> : a \in {0, 5, 6, -41, 80}, b \in {0, -10, -11, 16, 50},
                         c \in {0, 20, 21, -30, 45}, d \in {0, -5, -15, 31, -40},
                         e \in {0, 10, 11, -20, -60}}
PathCurves ==
    {<<a, b, c, d, e>> : a \in {64, 65, 75, 85, 86}, b \in {69, 70, 71, 84, 95},
                         c \in {74, 75, 76, 79, 100}, d \in {69, 70, 71, 80, 81},
                         e \in {60, 65, 75, 76, 79}}

AfterSetPayrolls(team, ds, flags, scores, curve, hist, applies) ==
    /\ currentTeam = team
    /\ currentYear = 1
    /\ payrollDecisions = curve
    /\ hasEngine = hasDecisions(team)
    /\ decisions = ds
    /\ activeFlags = flags
    /\ pathScores = scores
    /\ isGameComplete = FALSE
    /\ gameMode = IF hasDecisions(team) THEN "decisions" ELSE "slider"
    /\ healthScore = healthScoreOf(gameMode, hasEngine, scores, curve, team)
    /\ ret = Void
    /\ history = hist
    /\ applyCount = applies
    /\ setCount = 5
    /\ PageLoaded

FlatCurves == {[y \in Years |-> v] : v \in {0, 50, 75, 100}}

ScoreInit ==
    \/ \E team \in {"null", "nets", "steady"}, delta \in SliderDeltas :
          AfterSetPayrolls(team, NoDecisions, {}, ZeroScores,
                           [y \in Years |-> idealCurveOf(team)[y] + delta[y]],
                           NoHistory, 0)
    \/ \E team \in {"null", "nets", "steady"}, curve \in FlatCurves :
          AfterSetPayrolls(team, NoDecisions, {}, ZeroScores, curve,
                           NoHistory, 0)
    \/ \E i \in 1..3, curve \in PathCurves :
          LET o == Catalog("jets")[1][i]
          IN AfterSetPayrolls("jets", [NoDecisions EXCEPT ![1] = o.id],
                              applyFlags({}, o), applyWeights(ZeroScores, o),
                              curve, [NoHistory EXCEPT ![o.id] = 1], 1)

ScoreNext ==
    \/ CalculateHealthScore
    \/ FinishGame

SpecScore == ScoreInit /\ [][ScoreNext]_vars

\* --------------------------------------------- targets of other lengths
\* SpecTarget scores stored curves against a target of five entries and
\* against one of six.
TargetTeams == {"nets", "sixyear"}
TargetDeltas ==
    {<<a, b, c, d, e>> : a \in {0, 12, -25}, b \in {0, 7, -35}, c \in {0, 18, 10},
                         d \in {0, -12, 25}, e \in {0, 3, 55}}

TargetInit ==
    \E team \in TargetTeams, delta \in TargetDeltas :
        AfterSetPayrolls(team, NoDecisions, {}, ZeroScores,
                         [y \in Years |-> idealCurveOf(team)[y] + delta[y]],
                         NoHistory, 0)

SpecTarget == TargetInit /\ [][ScoreNext]_vars

\* ------------------------------------------------ the path accumulators
\* SpecPath plays the "jets" catalog, whose weights make the accumulators
\* tie in every pattern, and asks for the path.
PathArgs ==
    ArgsOf({"jets"})
    \cup {<<0, "lean_win">>, <<6, "hedge">>, <<2, "lean_win">>,
          <<1, "no_such_option">>}

PathNext ==
    \/ InitGame("jets")
    \/ \E a \in PathArgs : ApplyDecision(a[1], a[2])
    \/ GetDeterminedPath
    \/ FinishGame

SpecPath == Init /\ [][PathNext]_vars

\* ------------------------------------------------- the selection state
\* SpecSelect plays the catalogs whose options lock one another and asks
\* the engine about the selection state between the calls.
SelectTeams == {"knicks", "mets"}

SelectNext ==
    \/ \E t \in SelectTeams : InitGame(t)
    \/ \E a \in ApplyArgs : ApplyDecision(a[1], a[2])
    \/ \E y \in YearArgs : GetAvailableDecisions(y)
    \/ GetPayrollCurve
    \/ GetDeterminedPath

SpecSelect == Init /\ [][SelectNext]_vars

\* ------------------------------------------------------- one scenario
\* SpecSession makes every call of Spec on one decision team and one
\* slider team, choosing for the first two years only.
SessionTeams == {"nets", "knicks"}
SessionArgs ==
    {a \in ArgsOf({"knicks"}) : a[1] <= 2}
    \cup {<<0, "sign_star_fa">>, <<6, "shed_salary">>, <<2, "sign_star_fa">>,
          <<1, "no_such_option">>}

SessionNext ==
    \/ \E t \in SessionTeams : InitGame(t)
    \/ \E y \in SetYearArgs, p \in PayrollArgs : SetPayroll(y, p)
    \/ \E a \in SessionArgs : ApplyDecision(a[1], a[2])
    \/ NextYear
    \/ PreviousYear
    \/ \E y \in YearArgs : GoToYear(y)
    \/ FinishGame
    \/ ResetGame
    \/ ValidatePathCoherence

SpecSession == Init /\ [][SessionNext]_vars

\* ------------------------------------------------------ the copy button
\* copyClaimCode up to the clipboard call: the promise is left pending
CopyClaimCode ==
    /\ copies < MaxCopies
    /\ copies' = copies + 1
    /\ pendingWrites' = pendingWrites + 1
    /\ UNCHANGED <<btnText, timers, failedWrites>>
    /\ UNCHANGED <<gameVars, ret, history, applyCount, setCount>>

\* the .then callback: remember the label shown now, show "Copied!", and
\* schedule the restore
WriteResolved ==
    /\ pendingWrites > 0
    /\ pendingWrites' = pendingWrites - 1
    /\ LET originalText == btnText
       IN /\ btnText' = CopiedLabel
          /\ timers' = Append(timers, originalText)
    /\ UNCHANGED <<copies, failedWrites>>
    /\ UNCHANGED <<gameVars, ret, history, applyCount, setCount>>

\* the .catch callback: the code is shown in an alert, the button is not
\* touched
WriteRejected ==
    /\ pendingWrites > 0
    /\ pendingWrites' = pendingWrites - 1
    /\ failedWrites' = failedWrites + 1
    /\ UNCHANGED <<btnText, timers, copies>>
    /\ UNCHANGED <<gameVars, ret, history, applyCount, setCount>>

\* the setTimeout callback; the delays are equal, so the timers fire in the
\* order they were set
TimerFires ==
    /\ timers # << >>
    /\ btnText' = Head(timers)
    /\ timers' = Tail(timers)
    /\ UNCHANGED <<pendingWrites, copies, failedWrites>>
    /\ UNCHANGED <<gameVars, ret, history, applyCount, setCount>>

\* SpecCopy presses the copy button on the results screen of a finished
\* session, any number of times up to MaxCopies, with the callbacks
\* interleaved in every order the event loop allows.
CopyNext ==
    \/ FinishGame
    \/ CopyClaimCode
    \/ WriteResolved
    \/ WriteRejected
    \/ TimerFires

SpecCopy == Init /\ [][CopyNext]_vars

\* ================================================================ claims
Finished == ret.op = "finishGame"
Scored == ret.op = "calculateHealthScore"
DecisionMode == gameMode = "decisions" /\ hasEngine
SliderMode == ~DecisionMode
TargetCurve == idealCurveOf(currentTeam)

\* The reward table of the interface contract, row by row.
TableTier(score) ==
    CASE score >= 85 -> "GOLD"
      [] score >= 70 /\ score <= 84 -> "SILVER"
      [] score >= 55 /\ score <= 69 -> "BRONZE"
      [] OTHER -> "null"
TableXp == [GOLD |-> 250, SILVER |-> 175, BRONZE |-> 125]
TableSliderCode ==
    [GOLD |-> "CURVE-301-GOLD", SILVER |-> "CURVE-301-SILVER",
     BRONZE |-> "CURVE-301-BRONZE"]
TablePathCode ==
    [GOLD   |-> [winNow |-> "CURVE-301-CHAMPION", rebuild |-> "CURVE-301-ARCHITECT",
                 hybrid |-> "CURVE-301-STRATEGIST"],
     SILVER |-> [winNow |-> "CURVE-301-CONTENDER", rebuild |-> "CURVE-301-BUILDER",
                 hybrid |-> "CURVE-301-NEGOTIATOR"],
     BRONZE |-> [winNow |-> "CURVE-301-SPENDER", rebuild |-> "CURVE-301-DEVELOPER",
                 hybrid |-> "CURVE-301-BALANCED"]]

\* C1: the result of finishGame carries the reward of the table for its
\* score and mode: in decision mode the path is determinePath() and the code
\* is the path's code of the score's row, in slider mode there is no path
\* and the code is CURVE-301-GOLD/SILVER/BRONZE; XP is 250/175/125; below
\* 55 there is no code, no tier and 0 XP.
C1_RewardTable ==
    Finished =>
        LET row == TableTier(ret.score)
        IN /\ ret.score = healthScore
           /\ ret.path = IF DecisionMode THEN determinePath(pathScores) ELSE "null"
           /\ ret.score < 55 =>
                 ret.claimCode = "null" /\ ret.tier = "null" /\ ret.xp = 0
           /\ ret.score >= 55 =>
                 /\ ret.xp = TableXp[row]
                 /\ ret.claimCode = IF DecisionMode THEN TablePathCode[row][ret.path]
                                    ELSE TableSliderCode[row]

\* C1 witness: a decision-mode session finished on the winNow path in the
\* silver row.
C1_Witness ==
    /\ Finished /\ DecisionMode
    /\ ret.path = "winNow" /\ ret.claimCode = "CURVE-301-CONTENDER" /\ ret.xp = 175

\* C2: the tier of the finishGame result is gold iff score >= 85, silver iff
\* 70 <= score < 85, bronze iff 55 <= score < 70 and none iff score < 55;
\* so 84 is silver, 85 gold, 54 none and 55 bronze.
C2_TierThresholds ==
    Finished =>
        /\ ret.score \in 0..100
        /\ (ret.tier = "GOLD") <=> (ret.score >= 85)
        /\ (ret.tier = "SILVER") <=> (70 <= ret.score /\ ret.score < 85)
        /\ (ret.tier = "BRONZE") <=> (55 <= ret.score /\ ret.score < 70)
        /\ (ret.tier = "null") <=> (ret.score < 55)
        /\ ret.score = 84 => ret.tier = "SILVER"
        /\ ret.score = 85 => ret.tier = "GOLD"
        /\ ret.score = 54 => ret.tier = "null"
        /\ ret.score = 55 => ret.tier = "BRONZE"

\* C2 witness: a game finished exactly on the gold boundary.
C2_Witness == Finished /\ ret.score = 85 /\ ret.tier = "GOLD"

\* The reference scoring of a curve against a target.
RefYearPoints(d) ==
    CASE d <= 5 -> 20
      [] 5 < d /\ d <= 10 -> 17
      [] 10 < d /\ d <= 15 -> 14
      [] 15 < d /\ d <= 20 -> 10
      [] 20 < d /\ d <= 30 -> 6
      [] OTHER -> LET v == 4 - ((d - 30) \div 10) IN IF v > 0 THEN v ELSE 0
\* population variance < 50, as E[x^2] - E[x]^2 cleared of its denominators
RefFlatline(curve) ==
    LET S == Sum5(curve)
        Q == Sum5([y \in Years |-> curve[y] * curve[y]])
    IN 5 * Q - S * S < 50 * 25
RefFirstMax(curve) ==
    CHOOSE i \in Years : \A j \in Years :
        /\ curve[j] <= curve[i]
        /\ j < i => curve[j] < curve[i]
RefClamp(x) == IF x < 0 THEN 0 ELSE IF x > 100 THEN 100 ELSE x
RefScoreAgainstTarget(curve, target) ==
    LET base == Sum5([y \in Years |->
                        RefYearPoints(IF curve[y] >= target[y]
                                      THEN curve[y] - target[y]
                                      ELSE target[y] - curve[y])])
        penalised == IF RefFlatline(curve)
                     THEN (IF base < 15 THEN 0 ELSE base - 15) ELSE base
        timed == IF RefFirstMax(curve) = RefFirstMax(target)
                 THEN penalised + 5 ELSE penalised
    IN RefClamp(timed)

\* C3: in slider mode calculateHealthScore returns and stores the reference
\* score of the stored curve against the team's target: per-year points by
\* the breakpoints, minus 15 clamped at 0 when the variance is below 50,
\* plus 5 when the first maxima coincide, clamped to 0..100.
C3_SliderReference ==
    (Scored /\ SliderMode) =>
        /\ ret.score = RefScoreAgainstTarget(payrollDecisions, TargetCurve)
        /\ healthScore = ret.score

\* C3 witness: a scored flat curve whose penalty is clamped at 0 (all years
\* at 0 against the default target).
C3_Witness ==
    /\ Scored /\ SliderMode
    /\ RefFlatline(payrollDecisions)
    /\ Sum5([y \in Years |->
               RefYearPoints(Abs(payrollDecisions[y] - TargetCurve[y]))]) < 15
    /\ ret.score = 0

\* C4 as stated: a curve equal to its target scores 100 when its variance
\* is >= 50 and 85 when its variance is < 50.
C4_AsStated ==
    (Scored /\ SliderMode /\ payrollDecisions = TargetCurve) =>
        ret.score = IF RefFlatline(payrollDecisions) THEN 85 ELSE 100

\* C4 amended: a curve equal to its target scores 100 when its variance is
\* >= 50 and 90 when its variance is < 50 (100 - 15 for the flatline, + 5
\* for the peak, which a curve always shares with itself).
C4_EqualToTarget ==
    (Scored /\ SliderMode /\ payrollDecisions = TargetCurve) =>
        ret.score = IF RefFlatline(payrollDecisions) THEN 90 ELSE 100

\* C4 witness: the flat target [75,75,75,75,75] matched exactly.
C4_Witness ==
    /\ Scored /\ SliderMode
    /\ payrollDecisions = TargetCurve
    /\ payrollDecisions = [y \in Years |-> 75]
    /\ ret.score = 90

\* The reference path tables.
RefBand(p, lo, hi) == lo <= p /\ p <= hi
RefDistinct(curve) == Cardinality({curve[y] : y \in Years})
RefWinNow(curve) ==
    Sum5([y \in Years |->
            IF y <= 3
            THEN (CASE curve[y] >= 85 -> 15 [] RefBand(curve[y], 80, 84) -> 12
                    [] RefBand(curve[y], 75, 79) -> 8 [] OTHER -> 0)
            ELSE (CASE curve[y] <= 70 -> 10 [] RefBand(curve[y], 71, 75) -> 7
                    [] RefBand(curve[y], 76, 80) -> 4 [] OTHER -> 0)])
    + (IF RefDistinct(curve) >= 4 THEN 8 ELSE 0)
RefRebuild(curve) ==
    Sum5([y \in Years |->
            IF y <= 3
            THEN (CASE curve[y] <= 65 -> 15 [] RefBand(curve[y], 66, 70) -> 12
                    [] RefBand(curve[y], 71, 75) -> 8 [] OTHER -> 0)
            ELSE (CASE curve[y] >= 80 -> 10 [] RefBand(curve[y], 75, 79) -> 7
                    [] RefBand(curve[y], 70, 74) -> 4 [] OTHER -> 0)])
    + (IF RefDistinct(curve) >= 4 THEN 8 ELSE 0)
RefHybrid(curve) ==
    15 * Cardinality({y \in Years : RefBand(curve[y], 70, 80)})
    + 10 * Cardinality({y \in Years : RefBand(curve[y], 65, 85)
                                      /\ ~RefBand(curve[y], 70, 80)})
    + (IF Cardinality({y \in Years : RefBand(curve[y], 70, 80)}) >= 3
       THEN 10 ELSE 0)
RefScoreByPath(path, curve) ==
    RefClamp(CASE path = "winNow" -> RefWinNow(curve)
               [] path = "rebuild" -> RefRebuild(curve)
               [] path = "hybrid" -> RefHybrid(curve))

\* C5: in decision mode the score is the path's table applied to the stored
\* curve: winNow and rebuild by their early/late thresholds plus 8 for at
\* least 4 distinct values, hybrid 15 per year in [70,80], 10 per year in
\* [65,85] outside it, plus 10 for at least 3 years in [70,80]; clamped.
C5_PathTables ==
    (Finished /\ DecisionMode) =>
        ret.score = RefScoreByPath(ret.path, payrollDecisions)

\* C5 witness: a hybrid curve with all five years in [70,80], scoring 85.
C5_Witness ==
    /\ Finished /\ DecisionMode /\ ret.path = "hybrid"
    /\ \A y \in Years : RefBand(payrollDecisions[y], 70, 80)
    /\ ret.score = 85

\* C6 as stated: once all five years hold an option, every option applied
\* in the session being winNow-heavy with payroll >= 85 in years 1-3 and
\* <= 70 in years 4-5, determinePath() is winNow and scoreByPath(winNow, the
\* curve derived from the selections) is >= 85.
WinNowHeavy(o) ==
    /\ o.pathWeights.winNow > o.pathWeights.rebuild
    /\ o.pathWeights.winNow > o.pathWeights.hybrid
C6_Scenario ==
    /\ DecisionMode
    /\ \A y \in Years : decisions[y] # "null"
    /\ \A id \in AllIds : history[id] > 0 => WinNowHeavy(OptionOf(id))
    /\ \A y \in 1..3 : getPayrollCurve(currentTeam, decisions)[y] >= 85
    /\ \A y \in 4..5 : getPayrollCurve(currentTeam, decisions)[y] <= 70
C6_EndToEnd ==
    C6_Scenario =>
        /\ determinePath(pathScores) = "winNow"
        /\ scoreByPath("winNow", getPayrollCurve(currentTeam, decisions)) >= 85

\* The ordered resolution, by pairwise comparisons.
RefResolution(w, r, h) ==
    IF (h >= w /\ h >= r) /\ (h > w \/ h > r) THEN "hybrid"
    ELSE IF (w >= r /\ w >= h) /\ w > r THEN "winNow"
    ELSE IF r >= w /\ r >= h THEN "rebuild"
    ELSE "hybrid"
PathAsked == ret.op = "getDeterminedPath" /\ hasEngine
Triple(w, r, h) == [winNow |-> w, rebuild |-> r, hybrid |-> h]

\* C7: determinePath returns the ordered resolution of the accumulators:
\* hybrid if it is the maximum and exceeds min(winNow, rebuild), else winNow
\* if it is the maximum and exceeds rebuild, else rebuild if it is the
\* maximum, else hybrid; {12,10,10} gives winNow and {5,12,5} rebuild.
C7_OrderedResolution ==
    PathAsked =>
        /\ ret.path = RefResolution(pathScores.winNow, pathScores.rebuild,
                                    pathScores.hybrid)
        /\ pathScores = Triple(12, 10, 10) => ret.path = "winNow"
        /\ pathScores = Triple(5, 12, 5) => ret.path = "rebuild"

\* C7 witness: the path asked for with accumulators {12,10,10}.
C7_Witness == PathAsked /\ pathScores = Triple(12, 10, 10) /\ ret.path = "winNow"

\* C8 as stated: when the three accumulators are all equal, determinePath
\* returns hybrid.
C8_AllEqualHybrid ==
    (PathAsked /\ pathScores.winNow = pathScores.rebuild
               /\ pathScores.rebuild = pathScores.hybrid) =>
        ret.path = "hybrid"

\* C9 as stated: whenever two or more paths share the maximum, the path
\* returned is the first of them in the order hybrid, winNow, rebuild.
MaxPaths ==
    {p \in Paths : \A q \in Paths : pathScores[q] <= pathScores[p]}
C9_TieOrder ==
    (PathAsked /\ Cardinality(MaxPaths) >= 2) =>
        ret.path = IF "hybrid" \in MaxPaths THEN "hybrid"
                   ELSE IF "winNow" \in MaxPaths THEN "winNow"
                   ELSE "rebuild"

\* C10: a successful applyDecision(year, optionId) records optionId in the
\* year's slot and leaves the other slots as they were, adds every lock and
\* unlock tag of the option to the active tags, adds each path weight of
\* the option to its accumulator, and returns the option.
C10_ApplyEffects ==
    [][\A a \in PathArgs :
         (ret'.op = "applyDecision" /\ ret'.decision # "null"
          /\ ApplyDecision(a[1], a[2])) =>
            LET o == OptionOf(a[2])
            IN /\ ret'.decision = a[2]
               /\ decisions'[a[1]] = a[2]
               /\ \A y \in Years \ {a[1]} : decisions'[y] = decisions[y]
               /\ o.flags.lock \subseteq activeFlags'
               /\ o.flags.unlock \subseteq activeFlags'
               /\ activeFlags \subseteq activeFlags'
               /\ activeFlags' \subseteq
                     (activeFlags \cup o.flags.lock \cup o.flags.unlock)
               /\ \A p \in Paths :
                     pathScores'[p] = pathScores[p] + o.pathWeights[p]]_vars

\* C10 witness: a year-1 option applied after a year-2 choice.
C10_Witness ==
    /\ ret.op = "applyDecision" /\ ret.decision = "lean_rebuild"
    /\ decisions = [NoDecisions EXCEPT ![1] = "lean_rebuild", ![2] = "tilt_win"]
    /\ activeFlags = {"cap_flexibility", "lean_win"}
    /\ pathScores = Triple(0, 25, 8)


\* ids of the options of a year of the current team that carry no active
\* lock tag, by ascending catalog position
Unlocked(year) ==
    {i \in 1..Len(Catalog(currentTeam)[year]) :
        Catalog(currentTeam)[year][i].flags.lock \cap activeFlags = {}}
RefAvailableOptions(year) ==
    LET all == Catalog(currentTeam)[year]
        keep == Unlocked(year)
        nth(k) == CHOOSE i \in keep : Cardinality({j \in keep : j < i}) = k - 1
    IN [k \in 1..Cardinality(keep) |-> all[nth(k)].id]
AvailableAsked == ret.op = "getAvailableDecisions"

\* C11: for a year in 1..5, getAvailableDecisions(year) returns exactly the
\* options of that year none of whose lock tags is active, in catalog order.
C11_AvailableOptions ==
    (AvailableAsked /\ ret.year \in Years) =>
        ret.options = RefAvailableOptions(ret.year)
\* a year with two options, the first of them locked out and the second
\* returned
C11_Witness ==
    /\ AvailableAsked
    /\ ret.year \in Years
    /\ Len(Catalog(currentTeam)[ret.year]) = 2
    /\ Unlocked(ret.year) = {2}
    /\ ret.options = <<Catalog(currentTeam)[ret.year][2].id>>

\* the options applied successfully at least once this session
EverApplied == {id \in AllIds : history[id] > 0}
TagsEverApplied ==
    UNION {OptionOf(id).flags.lock \cup OptionOf(id).flags.unlock :
              id \in EverApplied}
WeightEverApplied(path) ==
    SumOver([id \in AllIds |-> history[id] * OptionOf(id).pathWeights[path]],
            AllIds)
Overwritten == {id \in EverApplied : \A y \in Years : decisions[y] # id}

\* C12: nothing is retracted by applying again for a year: the active tags
\* are the lock and unlock tags of every option ever applied this session,
\* each accumulator is the sum of its weights over every successful
\* applyDecision call, overwritten choices included, and a slot holds
\* nothing but an option of its year that was applied.
C12_NoRetraction ==
    /\ activeFlags = TagsEverApplied
    /\ \A path \in Paths : pathScores[path] = WeightEverApplied(path)
    /\ \A y \in Years :
          decisions[y] # "null" =>
             /\ decisions[y] \in EverApplied
             /\ findDecision(currentTeam, y, decisions[y]).id = decisions[y]
\* year 1 was chosen twice: the first choice is gone from the slots while
\* its tag and its weights are still counted
C12_Witness ==
    /\ decisions[1] = "draft_and_develop"
    /\ "sign_star_fa" \in Overwritten
    /\ "extend_star_y2" \in activeFlags
    /\ pathScores = [winNow |-> 15, rebuild |-> 10, hybrid |-> 13]

\* a step that starts a session or ends one
SessionBoundary ==
    \/ \E t \in PlayTeams : InitGame(t)
    \/ ResetGame

\* C13: between initGame and the next initGame or resetGame no tag leaves
\* the active set, whichever of applyDecision, setPayroll, nextYear,
\* previousYear, goToYear and finishGame is called.
C13_TagsOnlyGrow ==
    [][~SessionBoundary => activeFlags \subseteq activeFlags']_vars
\* tags from two choices for year 1 are still active after a setPayroll, a
\* move to year 3 and finishGame
C13_Witness ==
    /\ Finished
    /\ setCount = 1
    /\ currentYear = 3
    /\ "sign_star_fa" \in Overwritten
    /\ {"extend_star_y2", "young_core_locked"} \subseteq activeFlags

\* the option is in the year's catalog of the current team and carries an
\* active lock tag, so that getAvailableDecisions leaves it out
LockedOut(year, id) ==
    /\ hasEngine
    /\ year \in Years
    /\ \E i \in 1..Len(Catalog(currentTeam)[year]) :
          /\ Catalog(currentTeam)[year][i].id = id
          /\ i \notin Unlocked(year)

\* C14: applyDecision for an option that getAvailableDecisions leaves out
\* because a lock tag of it is active succeeds all the same: it returns the
\* option, records it in the year's slot, adds its tags and its weights
\* and puts its payroll into the curve.
C14_ForceApply ==
    [][\A a \in ApplyArgs :
          (/\ ret'.op = "applyDecision"
           /\ LockedOut(a[1], a[2])
           /\ ApplyDecision(a[1], a[2]))
          => LET o == OptionOf(a[2])
             IN /\ ret'.decision = a[2]
                /\ decisions' = [decisions EXCEPT ![a[1]] = a[2]]
                /\ activeFlags' = activeFlags \cup o.flags.lock \cup o.flags.unlock
                /\ \A p \in Paths : pathScores'[p] = pathScores[p] + o.pathWeights[p]
                /\ payrollDecisions'[a[1]] = o.payrollPercentage
                /\ history'[a[2]] = history[a[2]] + 1]_vars
\* trade_for_assets applied once, after quick_spending_boost had made its
\* lock tag win_now_contention active
C14_Witness ==
    /\ ret.op = "applyDecision"
    /\ ret.decision = "trade_for_assets"
    /\ applyCount = 2
    /\ history["quick_spending_boost"] = 1
    /\ decisions = <<"trade_for_assets", "quick_spending_boost", "null", "null", "null">>
    /\ pathScores = [winNow |-> 15, rebuild |-> 15, hybrid |-> 15]
    /\ payrollDecisions = <<65, 85, 50, 50, 50>>

\* the arguments of the three guarded calls that the guards turn away
NotInCatalog(year, id) ==
    \/ year \notin Years
    \/ \A i \in 1..Len(Catalog(currentTeam)[year]) :
          Catalog(currentTeam)[year][i].id # id
RejectedCall ==
    \/ /\ ret'.op = "applyDecision"
       /\ \E a \in ApplyArgs :
             NotInCatalog(a[1], a[2]) /\ ApplyDecision(a[1], a[2])
    \/ /\ ret'.op = "void"
       /\ \E y \in SetYearArgs \ Years, p \in PayrollArgs : SetPayroll(y, p)
    \/ /\ ret'.op = "void"
       /\ \E y \in YearArgs \ Years : GoToYear(y)

\* C15: applyDecision with an id that is not in the year's catalog or with
\* a year outside 1..5, and setPayroll and goToYear with a year outside
\* 1..5, change nothing of the game state: slots, tags, accumulators,
\* stored curve, health score, current year, team, mode and completion.
C15_RejectedCallsMutateNothing ==
    [][RejectedCall => UNCHANGED gameVars]_vars
\* applyDecision has just returned null in a session that holds two
\* selections and stands on year 4
C15_Witness ==
    /\ ret.op = "applyDecision"
    /\ ret.decision = "null"
    /\ applyCount = 2
    /\ currentYear = 4
    /\ decisions = <<"sign_star_fa", "extend_star", "null", "null", "null">>
    /\ payrollDecisions = <<90, 95, 50, 50, 50>>

\* C16: getAvailableDecisions(year) with a year outside 1..5 ends in an
\* error outcome that cannot be taken for a successful call with nothing
\* available: what it hands back is not the empty array that a year of the
\* catalog without available options gives.
C16_InvalidYearFails ==
    (AvailableAsked /\ ret.year \notin Years) => ret.options # << >>

\* C17: when the target (or the curve) does not have exactly 5 entries,
\* scoring is turned down: calculateHealthScore hands back no score (no
\* number of the 0..100 scale) and the stored health score keeps the value
\* it had.
C17_LengthRejected ==
    [][(CalculateHealthScore /\ (Len(TargetCurve) # 5 \/ Len(payrollDecisions) # 5))
          => (ret'.score \notin 0..100 /\ UNCHANGED healthScore)]_vars

CurveAsked == ret.op = "getPayrollCurve"

\* C18: getPayrollCurve returns five numbers: for a year whose slot holds
\* an option, that option's payrollPercentage, and 50 for a year whose slot
\* is empty; it returns in every reachable state of an engine.
C18_DerivedCurve ==
    CurveAsked =>
        /\ Len(ret.curve) = 5
        /\ \A y \in Years :
              ret.curve[y] = IF decisions[y] = "null" THEN 50
                             ELSE OptionOf(decisions[y]).payrollPercentage
\* the curve of a session with years 1 and 3 chosen and the others empty
C18_Witness ==
    /\ CurveAsked
    /\ decisions = <<"draft_and_develop", "null", "go_all_in", "null", "null">>
    /\ ret.curve = <<50, 50, 100, 50, 50>>
    /\ "sign_star_fa" \in Overwritten

\* the curve the selections stand for
SelectedCurve ==
    [y \in Years |-> IF decisions[y] = "null" THEN 50
                     ELSE OptionOf(decisions[y]).payrollPercentage]

\* C19: in decision mode state.payrollDecisions is the curve of the
\* current selections (the chosen option's payroll for a chosen year, 50
\* for an unset year) in every state that initGame, applyDecision,
\* setPayroll, the navigation calls and finishGame can reach.
C19_StoredCurveIsDerived ==
    DecisionMode => payrollDecisions = SelectedCurve

\* the selection state of the engine is the one the constructor builds
FreshSelectionState ==
    /\ decisions = NoDecisions
    /\ activeFlags = {}
    /\ pathScores = ZeroScores
SuccessfulApply == ret'.op = "applyDecision" /\ ret'.decision # "null"

\* C20: initGame on a team with a decision catalog leaves all five slots
\* unset, no tag active, the three accumulators at 0 and currentYear at 1,
\* whatever the session before it had applied; and until the next initGame
\* or resetGame no call but a successful applyDecision changes the slots,
\* the tags or the accumulators.
C20_FreshSelectionState ==
    [][/\ \A t \in PlayTeams \cap DecisionTeams :
             InitGame(t) => (FreshSelectionState' /\ currentYear' = 1 /\ hasEngine')
       /\ (~SessionBoundary /\ ~SuccessfulApply)
             => UNCHANGED <<decisions, activeFlags, pathScores>>]_vars
\* the state initGame("knicks") leaves
C20_Witness ==
    /\ currentTeam = "knicks"
    /\ hasEngine
    /\ FreshSelectionState
    /\ currentYear = 1
    /\ applyCount = 0
    /\ setCount = 0
    /\ ~isGameComplete
    /\ payrollDecisions = [y \in Years |-> 95]
    /\ ret = Void

\* C21: in decision mode isGameComplete is true only in states where each
\* of the five year slots holds a chosen option.
C21_CompleteMeansAllChosen ==
    (DecisionMode /\ isGameComplete) => \A y \in Years : decisions[y] # "null"

\* C22: after validatePathCoherence, every year of the stored curve whose
\* value is below 40 or above 140 is flagged: isCoherent is false and a
\* range message names the year, in slider mode as in decision mode.
C22_OutOfRangeFlagged ==
    ret.op = "validatePathCoherence" =>
        \A y \in Years :
            (payrollDecisions[y] < 40 \/ payrollDecisions[y] > 140)
                => (~ret.isCoherent /\ y \in ret.flagged)

\* C23: state.healthScore is a number from 0 to 100 in every reachable
\* state, in slider mode and in decision mode.
C23_HealthScoreRange ==
    healthScore \in 0..100
\* a slider curve whose year points and peak bonus add up to 105 has been
\* scored, and the stored score is 100
C23_Witness ==
    /\ Scored
    /\ SliderMode
    /\ sliderScore(payrollDecisions, TargetCurve) = 105
    /\ healthScore = 100
    /\ ret.score = 100

QueryOps == {"getAvailableDecisions", "getDeterminedPath", "getPayrollCurve"}

\* C24: getAvailableDecisions, determinePath and getPayrollCurve change
\* nothing of the game state (slots, tags, accumulators and the rest), and
\* getAvailableDecisions called again for the same year right after itself
\* returns the same sequence.
C24_QueriesArePure ==
    [][(ret'.op \in QueryOps) =>
          /\ UNCHANGED gameVars
          /\ (AvailableAsked /\ ret'.op = "getAvailableDecisions"
                 /\ ret'.year = ret.year) => ret'.options = ret.options]_vars
\* the path has been asked for in a session with two selections, and the
\* selections, tags and accumulators stand as applyDecision left them
C24_Witness ==
    /\ ret.op = "getDeterminedPath"
    /\ ret.path = "hybrid"
    /\ decisions = <<"balanced_approach", "maintain_payroll", "null", "null", "null">>
    /\ activeFlags = {"flexible_year2"}
    /\ pathScores = [winNow |-> 15, rebuild |-> 15, hybrid |-> 35]
    /\ payrollDecisions = <<75, 75, 50, 50, 50>>

\* curves over values that put every band of the three path tables within
\* reach, with four distinct values in each best band
GoldValues == {0, 60, 65, 70, 72, 75, 80, 85, 90, 140}
ReachesGold(path) ==
    \E a \in GoldValues, b \in GoldValues, c \in GoldValues, d \in GoldValues,
       e \in GoldValues : scoreByPath(path, <<a, b, c, d, e>>) >= 85

\* C25: whichever path a decision-mode session is on, winNow, rebuild or
\* hybrid, some 5-year curve with values in 0..140 scores at least 85 on
\* that path, so that the path's gold code can be obtained.
C25_EveryPathReachesGold ==
    DecisionMode => ReachesGold(determinePath(pathScores))

\* one of the three tests of determinePath that come before its final
\* "return 'hybrid'" succeeds
BranchTaken(s) ==
    \/ s.hybrid = Max3(s.winNow, s.rebuild, s.hybrid)
          /\ s.hybrid > Min2(s.winNow, s.rebuild)
    \/ s.winNow = Max3(s.winNow, s.rebuild, s.hybrid) /\ s.winNow > s.rebuild
    \/ s.rebuild = Max3(s.winNow, s.rebuild, s.hybrid)

\* shifts that bring three accumulators into every order and tie pattern
OrderTypes == (-40..40) \X {0} \X {-40, -1, 0, 1, 40}

\* C26: the path determinePath returns is one whose accumulator is the
\* maximum of the three, and the accumulators always satisfy one of the
\* three tests, so that the final default branch is not reached; the same
\* holds of the triples in every order and tie pattern around them.
C26_ReturnsAMaximum ==
    PathAsked =>
        /\ ret.path \in MaxPaths
        /\ BranchTaken(pathScores)
        /\ \A d \in OrderTypes :
              LET s == Triple(pathScores.winNow + d[1], pathScores.rebuild + d[2],
                              pathScores.hybrid + d[3])
              IN /\ s[determinePath(s)] = Max3(s.winNow, s.rebuild, s.hybrid)
                 /\ BranchTaken(s)
\* a three-way tie away from zero, answered with rebuild
C26_Witness ==
    /\ PathAsked
    /\ pathScores.winNow = pathScores.rebuild
    /\ pathScores.rebuild = pathScores.hybrid
    /\ pathScores.hybrid > 0
    /\ ret.path = "rebuild"

\* the slot of the year asked for holds an option that has lock tags
ChosenHasLockTags(year) ==
    /\ hasEngine
    /\ year \in Years
    /\ decisions[year] # "null"
    /\ OptionOf(decisions[year]).flags.lock # {}

\* C27: once an option with a non-empty lock-tag set has been applied for a
\* year, getAvailableDecisions(year) does not return it, its own lock tags
\* being active, and the card of the chosen option is rendered as locked.
C27_ChosenOptionLocked ==
    /\ (AvailableAsked /\ ChosenHasLockTags(ret.year)) =>
           \A i \in 1..Len(ret.options) : ret.options[i] # decisions[ret.year]
    /\ \A y \in Years :
           ChosenHasLockTags(y) =>
              isLocked(getAvailableDecisions(currentTeam, activeFlags, y),
                       decisions[y])
\* trade_for_assets is the only option applied, and year 1 offers
\* balanced_approach alone
C27_Witness ==
    /\ AvailableAsked
    /\ ret.year = 1
    /\ applyCount = 1
    /\ decisions[1] = "trade_for_assets"
    /\ ret.options = <<"balanced_approach">>

\* C28: currentYear is one of 1..5 in every reachable state: nextYear at
\* year 5 and previousYear at year 1 leave it where it is, goToYear with a
\* year outside 1..5 leaves it where it is, and initGame and resetGame set
\* it to 1.
C28_CurrentYearRange ==
    /\ currentYear \in Years
    /\ [][/\ currentYear' \in Years
          /\ (NextYear /\ currentYear = 5) => currentYear' = 5
          /\ (PreviousYear /\ currentYear = 1) => currentYear' = 1
          /\ (\E y \in YearArgs \ Years : GoToYear(y)) => currentYear' = currentYear
          /\ SessionBoundary => currentYear' = 1]_vars
\* a finished session standing on year 5 after moving there
C28_Witness ==
    /\ currentYear = 5
    /\ isGameComplete
    /\ ret = Void
    /\ applyCount = 2
    /\ setCount = 1

\* C29: finishGame leaves the stored curve, the year slots, the active
\* tags and the accumulators as they are, and finishGame called right
\* after finishGame returns the same score, tier, claim code, XP and path.
C29_FinishRepeatable ==
    [][FinishGame =>
          /\ UNCHANGED <<payrollDecisions, decisions, activeFlags, pathScores>>
          /\ ret'.score = healthScoreOf(gameMode, hasEngine, pathScores,
                                        payrollDecisions, currentTeam)
          /\ Finished => ret' = ret]_vars
\* a decision-mode session finished with a bronze result on the winNow
\* path, its curve and selections in place
C29_Witness ==
    /\ Finished
    /\ isGameComplete
    /\ ret.claimCode = "CURVE-301-SPENDER"
    /\ ret.score = 58
    /\ payrollDecisions = <<90, 95, 50, 30, 50>>
    /\ decisions = <<"sign_star_fa", "extend_star", "null", "null", "null">>

\* C30: after any number of copyClaimCode invocations whose clipboard writes
\* all succeeded, overlapping ones included, once no write and no timer is
\* pending the copy button shows the label it had before the first invocation.
C30_LabelRestored ==
    (copies > 0 /\ failedWrites = 0 /\ pendingWrites = 0 /\ timers = << >>)
        => btnText = MarkupLabel

====
